---- MODULE Spec2Model ----
(***************************************************************************)
(* Model of regloicclib: the Communicator worker thread (serial and socket *)
(* variants), its three queues, the running-status table and the callers   *)
(* of write()/query().                                                     *)
(*                                                                         *)
(* Python values are modelled with their type, because the code mixes      *)
(* bytes and str: a value is a record [t |-> "bytes" | "str", s |-> chars] *)
(* where chars is a sequence of one-character strings.  Python's == is     *)
(* record equality, so b'*' == '*' is false as in Python 3.                *)
(***************************************************************************)
EXTENDS Integers, Sequences, FiniteSets, TLC

VARIABLES
    variant,     \* "serial" (SerialCommunicator) or "socket" (SocketCommunicator)
    cmd_q,       \* self.cmd_q
    que_q,       \* self.que_q
    res_q,       \* self.res_q
    running,     \* self.running: channel -> bool
    stop_event,  \* self._stop_event
    wblk,        \* worker thread: block of run()/loop() it is in
    wpc,         \* worker thread: step inside the block
    cmd,         \* loop() local cmd
    res,         \* loop() local res
    line,        \* loop() local line
    rx,          \* bytes the device has sent and the transport has not yet read
    cpc,         \* caller thread position: "idle", "wait", "ret"
    creq,        \* caller's current request
    cret,        \* what the caller's call returned
    pending,     \* history: callers in the order of their put(), until the
                 \*          payload is written
    inflight,    \* history: callers whose payload is written and whose reply
                 \*          is not yet on res_q
    mode,        \* history: last mode command written: "none", "E0", "E1"
    oplog,       \* history: transport/queue operations of the current loop() call
    devSent,     \* history: number of chunks the device has sent
    call,        \* client thread: its last setRunningStatus()/getRunning() call,
                 \* or the frame of its call of a Pump operation
    enc          \* client thread: its last call of a Pump number encoder

\* what the client thread's direct calls write
pump == <<call, enc>>

vars == <<variant, cmd_q, que_q, res_q, running, stop_event, wblk, wpc, cmd,
          res, line, rx, cpc, creq, cret, pending, inflight, mode, oplog,
          devSent, call, enc>>

(***************************************************************************)
(* Bounds                                                                  *)
(***************************************************************************)
NumCallers == 2      \* threads calling write()/query()
MaxDev == 1          \* chunks the device sends
NumChannels == 2     \* channels the pump reports (nChannels)
MaxDuration == 12    \* every duration up to this one is encoded
MaxNumber == 12      \* every number up to this one, of either sign, is encoded
MaxBuf == 3          \* at most this many bytes wait on the transport at a line read

Callers == 1..NumCallers

(***************************************************************************)
(* Python values                                                           *)
(***************************************************************************)
B(s) == [t |-> "bytes", s |-> s]
S(s) == [t |-> "str", s |-> s]

Whitespace == {" ", "\t", "\n", "\r"}

RECURSIVE LStrip(_)
LStrip(s) == IF s # <<>> /\ Head(s) \in Whitespace THEN LStrip(Tail(s)) ELSE s

RECURSIVE RStrip(_)
RStrip(s) ==
    IF s # <<>> /\ s[Len(s)] \in Whitespace
    THEN RStrip(SubSeq(s, 1, Len(s) - 1))
    ELSE s

\* v.strip()
Strip(v) == [t |-> v.t, s |-> LStrip(RStrip(v.s))]

\* v[:n]
Prefix(v, n) ==
    [t |-> v.t, s |-> SubSeq(v.s, 1, IF Len(v.s) < n THEN Len(v.s) ELSE n)]

EndsWith(s, suffix) ==
    /\ Len(s) >= Len(suffix)
    /\ SubSeq(s, Len(s) - Len(suffix) + 1, Len(s)) = suffix

Digits == {"0", "1", "2", "3", "4", "5", "6", "7", "8", "9"}

DigitVal(c) ==
    CASE c = "0" -> 0 [] c = "1" -> 1 [] c = "2" -> 2 [] c = "3" -> 3
      [] c = "4" -> 4 [] c = "5" -> 5 [] c = "6" -> 6 [] c = "7" -> 7
      [] c = "8" -> 8 [] c = "9" -> 9

\* code of a byte, for the characters the model sends
Ord(c) ==
    CASE c \in Digits -> 48 + DigitVal(c)
      [] c = "^" -> 94 [] c = "U" -> 85 [] c = "X" -> 88 [] c = "*" -> 42
      [] c = "#" -> 35 [] c = "z" -> 122 [] c = "\r" -> 13 [] c = "\n" -> 10
      [] OTHER -> 63

(***************************************************************************)
(* Wire constants                                                          *)
(***************************************************************************)
CR == "\r"
LF == "\n"
DisableAsync == <<"1", "x", "E", "0", CR>>
EnableAsync == <<"1", "x", "E", "1", CR>>
FlushSize == 100

CmdPayloads == {<<"1", "H">>}
QueryPayloads == {<<"1", "#">>}

\* what the device may put on the line: the acknowledgement, a line that is
\* no notification, and notifications (well-formed, truncated, without digit)
DeviceChunks ==
    { <<"*">>,
      <<"4", CR, LF>>,
      <<"^", "U", "1", CR, LF>>,
      <<"^", "X", "1", CR, LF>>,
      <<"^", "U">> }

NoReq == [by |-> 0, kind |-> "none", data |-> B(<<>>)]
NoVal == S(<<>>)
NoRet == [for |-> 0, ok |-> FALSE, text |-> NoVal]

\* The channel argument of setRunningStatus: an int (t = "int", n) or a
\* list / tuple of ints (t = "list", l).
IntArg(n) == [t |-> "int", n |-> n, l |-> <<>>]
ListArg(l) == [t |-> "list", n |-> 0, l |-> l]

NoCall == [op |-> "none", status |-> FALSE, arg |-> IntArg(0),
           before |-> <<>>, ok |-> FALSE, val |-> FALSE]
NoEnc == [fn |-> "none", number |-> 0, units |-> "s", out |-> B(<<>>)]

(***************************************************************************)
(* Transport: serial.Serial.read / SocketCommunicator.timeout_recv         *)
(***************************************************************************)
Min(a, b) == IF a < b THEN a ELSE b

\* the bytes a read of up to n bytes takes from the line, and what it leaves
Take(n) == SubSeq(rx, 1, Min(n, Len(rx)))
Rest(n) == SubSeq(rx, Min(n, Len(rx)) + 1, Len(rx))

\* ser.read(n) returns bytes; timeout_recv(n) decodes to str ('' on timeout)
Recv(n) == IF variant = "serial" THEN B(Take(n)) ELSE S(Take(n))

\* ser.readline() stops after LF, SocketCommunicator.readline after CR LF
LineEnd == IF variant = "serial" THEN <<LF>> ELSE <<CR, LF>>

\* a payload written without its terminator
Terminated_noCR(v) == v.s

\* payload followed by the carriage return: cmd + b'\r'
Terminated(v) == v.s \o <<CR>>

Entry(op, blk, arg) == [op |-> op, blk |-> blk, arg |-> arg]

Q(k) == IF k = "cmd" THEN cmd_q ELSE que_q

(***************************************************************************)
(* Initial state: Communicator.__init__                                    *)
(***************************************************************************)
Init ==
    /\ variant \in {"serial", "socket"}
    /\ cmd_q = <<>>
    /\ que_q = <<>>
    /\ res_q = <<>>
    /\ running = <<>>
    /\ stop_event = FALSE
    /\ wblk = "run"
    /\ wpc = "top"
    /\ cmd = NoReq
    /\ res = NoVal
    /\ line = NoVal
    /\ rx = <<>>
    /\ cpc = [c \in Callers |-> "idle"]
    /\ creq = [c \in Callers |-> NoReq]
    /\ cret = [c \in Callers |-> NoRet]
    /\ pending = <<>>
    /\ inflight = {}
    /\ mode = "none"
    /\ oplog = <<>>
    /\ devSent = 0
    /\ call = NoCall
    /\ enc = NoEnc

(***************************************************************************)
(* Worker thread: Communicator.run and the loop() of either variant.  The  *)
(* two service blocks of loop() (command queue, then query queue) have the *)
(* same steps and are written once, with k in {"cmd", "que"}.  A step of   *)
(* the worker is one access to a queue or one read of the transport; a     *)
(* write to the transport is taken together with the queue access before   *)
(* it, since no other thread observes the write.                           *)
(***************************************************************************)
Blocks == {"cmd", "que"}

\* while not self._stop_event.isSet(): self.loop()  /  self.close()
Run ==
    /\ wblk = "run"
    /\ IF stop_event
       THEN wblk' = "closed" /\ wpc' = "end"
       ELSE wblk' = "cmd" /\ wpc' = "chk"
    /\ oplog' = <<>>
    /\ UNCHANGED <<pump, variant, cmd_q, que_q, res_q, running, stop_event, cmd, res,
                   line, rx, cpc, creq, cret, pending, inflight, mode, devSent>>

\* a worker that writes '1xE0' also when the queue is empty
Check_always(k) ==
    /\ wblk = k /\ wpc = "chk"
    /\ oplog' = Append(oplog, Entry("write", k, DisableAsync))
    /\ mode' = "E0"
    /\ IF Len(Q(k)) > 0
       THEN wblk' = k /\ wpc' = "ack0"
       ELSE IF k = "cmd"
            THEN wblk' = "que" /\ wpc' = "chk"
            ELSE wblk' = "poll" /\ wpc' = "read"
    /\ UNCHANGED <<pump, variant, cmd_q, que_q, res_q, running, stop_event, cmd, res,
                   line, rx, cpc, creq, cret, pending, inflight, devSent>>

\* if self.cmd_q.qsize(): write(b'1xE0\r')   (the same for que_q)
Check(k) ==
    /\ wblk = k /\ wpc = "chk"
    /\ IF Len(Q(k)) > 0
       THEN /\ oplog' = Append(oplog, Entry("write", k, DisableAsync))
            /\ mode' = "E0"
            /\ wblk' = k /\ wpc' = "ack0"
       ELSE /\ UNCHANGED <<oplog, mode>>
            /\ IF k = "cmd"
               THEN wblk' = "que" /\ wpc' = "chk"
               ELSE wblk' = "poll" /\ wpc' = "read"
    /\ UNCHANGED <<pump, variant, cmd_q, que_q, res_q, running, stop_event, cmd, res,
                   line, rx, cpc, creq, cret, pending, inflight, devSent>>

\* read(size=1) / timeout_recv(1) after '1xE0', then flush = read(100) /
\* timeout_recv(100).  Both reads drop what they take, so they are one step:
\* a byte that arrives between them is dropped like one that arrived before.
Flush(k) ==
    /\ wblk = k /\ wpc = "ack0"
    /\ LET left == Rest(1)
       IN  rx' = SubSeq(left, Min(FlushSize, Len(left)) + 1, Len(left))
    /\ oplog' = oplog \o <<Entry("read1", k, <<>>), Entry("read100", k, <<>>)>>
    /\ wpc' = "get"
    /\ UNCHANGED <<pump, variant, cmd_q, que_q, res_q, running, stop_event, wblk, cmd,
                   res, line, cpc, creq, cret, pending, inflight, mode,
                   devSent>>

\* a worker that writes the next payload without waiting for the reply
Send_noWait(k) ==
    /\ wblk = k /\ wpc = "get"
    /\ Len(Q(k)) > 0
    /\ cmd' = Head(Q(k))
    /\ IF k = "cmd"
       THEN cmd_q' = Tail(cmd_q) /\ UNCHANGED que_q
       ELSE que_q' = Tail(que_q) /\ UNCHANGED cmd_q
    /\ oplog' = oplog \o <<Entry("buffered", k, rx),
                           Entry("get", k, Head(Q(k)).data.s),
                           Entry("write", k, Terminated(Head(Q(k)).data))>>
    /\ pending' = SelectSeq(pending, LAMBDA c : c # Head(Q(k)).by)
    /\ inflight' = inflight \cup {Head(Q(k)).by}
    /\ wpc' = IF Len(Q(k)) > 1 THEN "get" ELSE "recv"
    /\ UNCHANGED <<pump, variant, res_q, running, stop_event, wblk, res, line, rx,
                   cpc, creq, cret, mode, devSent>>

\* cmd = self.cmd_q.get(); write(cmd + b'\r')   (the same for que_q).  The
\* log entry "buffered" is history: the bytes that wait on the transport
\* when the payload is written.
Send(k) ==
    /\ wblk = k /\ wpc = "get"
    /\ Len(Q(k)) > 0
    /\ cmd' = Head(Q(k))
    /\ IF k = "cmd"
       THEN cmd_q' = Tail(cmd_q) /\ UNCHANGED que_q
       ELSE que_q' = Tail(que_q) /\ UNCHANGED cmd_q
    /\ oplog' = oplog \o <<Entry("buffered", k, rx),
                           Entry("get", k, Head(Q(k)).data.s),
                           Entry("write", k, Terminated(Head(Q(k)).data))>>
    /\ pending' = SelectSeq(pending, LAMBDA c : c # Head(Q(k)).by)
    /\ inflight' = inflight \cup {Head(Q(k)).by}
    /\ wpc' = "recv"
    /\ UNCHANGED <<pump, variant, res_q, running, stop_event, wblk, res, line, rx,
                   cpc, creq, cret, mode, devSent>>

\* res = read(size=1) / res = timeout_recv(1)      (command block)
RecvByte ==
    /\ wblk = "cmd" /\ wpc = "recv"
    /\ res' = Recv(1)
    /\ rx' = Rest(1)
    /\ oplog' = Append(oplog, Entry("read1", "cmd", <<>>))
    /\ wpc' = "put"
    /\ UNCHANGED <<pump, variant, cmd_q, que_q, res_q, running, stop_event, wblk, cmd,
                   line, cpc, creq, cret, pending, inflight, mode, devSent>>

\* Number of bytes up to and including the first line end in the buffer,
\* or the whole buffer when it holds no line end.
RECURSIVE LineLen(_)
LineLen(n) ==
    IF n >= Len(rx) THEN Len(rx)
    ELSE IF n > 0 /\ EndsWith(SubSeq(rx, 1, n), LineEnd) THEN n
    ELSE LineLen(n + 1)

\* a line read that takes all that is buffered
LineTakes_whole == {Len(rx)}

\* The numbers of bytes a line read may take.  serial: readline() reads byte
\* by byte until LF or until a read times out on an empty buffer.  socket:
\* readline() appends timeout_recv(1) and stops on CR LF, or after any turn
\* at which the time since t0 exceeds the timeout.
LineTakes ==
    IF variant = "serial" \/ rx = <<>>
    THEN {LineLen(0)}
    ELSE 1..LineLen(0)

\* res = readline().strip()                        (query block)
RecvLine ==
    /\ wblk = "que" /\ wpc = "recv"
    /\ \E n \in LineTakes :
         /\ res' = Strip(Recv(n))
         /\ rx' = Rest(n)
    /\ oplog' = Append(oplog, Entry("readline", "que", <<>>))
    /\ wpc' = "put"
    /\ UNCHANGED <<pump, variant, cmd_q, que_q, res_q, running, stop_event, wblk, cmd,
                   line, cpc, creq, cret, pending, inflight, mode, devSent>>

\* a worker that does not switch asynchronous messages back on
Reply_noEnable(k) ==
    /\ wblk = k /\ wpc = "put"
    /\ res_q' = Append(res_q, [for |-> cmd.by, val |-> res])
    /\ inflight' = inflight \ {cmd.by}
    /\ oplog' = Append(oplog, Entry("put", k, <<>>))
    /\ cmd' = NoReq /\ res' = NoVal
    /\ wpc' = "ack1"
    /\ UNCHANGED <<pump, variant, cmd_q, que_q, running, stop_event, wblk, line, rx,
                   cpc, creq, cret, pending, mode, devSent>>

\* a worker that puts nothing on the response queue when the read timed out
Reply_ifRes(k) ==
    /\ wblk = k /\ wpc = "put"
    /\ res_q' = IF res.s = <<>> THEN res_q
                ELSE Append(res_q, [for |-> cmd.by, val |-> res])
    /\ inflight' = inflight \ {cmd.by}
    /\ oplog' = oplog \o (IF res.s = <<>> THEN <<>>
                           ELSE <<Entry("put", k, <<>>)>>)
                      \o <<Entry("write", k, EnableAsync)>>
    /\ mode' = "E1"
    /\ cmd' = NoReq /\ res' = NoVal
    /\ wpc' = "ack1"
    /\ UNCHANGED <<pump, variant, cmd_q, que_q, running, stop_event, wblk, line, rx,
                   cpc, creq, cret, pending, devSent>>

\* a worker that ends when the reply is not the acknowledgement '*'
Reply_raise(k) ==
    /\ wblk = k /\ wpc = "put"
    /\ IF res.s = <<"*">>
       THEN /\ res_q' = Append(res_q, [for |-> cmd.by, val |-> res])
            /\ oplog' = oplog \o <<Entry("put", k, <<>>),
                                   Entry("write", k, EnableAsync)>>
            /\ mode' = "E1"
            /\ wpc' = "ack1" /\ UNCHANGED wblk
       ELSE /\ wblk' = "crashed" /\ wpc' = "end"
            /\ UNCHANGED <<res_q, oplog, mode>>
    /\ inflight' = inflight \ {cmd.by}
    /\ cmd' = NoReq /\ res' = NoVal
    /\ UNCHANGED <<pump, variant, cmd_q, que_q, running, stop_event, line, rx,
                   cpc, creq, cret, pending, devSent>>

\* self.res_q.put(res); write(b'1xE1\r')
Reply(k) ==
    /\ wblk = k /\ wpc = "put"
    /\ res_q' = Append(res_q, [for |-> cmd.by, val |-> res])
    /\ inflight' = inflight \ {cmd.by}
    /\ oplog' = oplog \o <<Entry("put", k, <<>>),
                           Entry("write", k, EnableAsync)>>
    /\ mode' = "E1"
    /\ cmd' = NoReq /\ res' = NoVal      \* the locals are not read again
    /\ wpc' = "ack1"
    /\ UNCHANGED <<pump, variant, cmd_q, que_q, running, stop_event, wblk, line, rx,
                   cpc, creq, cret, pending, devSent>>

\* read(size=1) / timeout_recv(1) after '1xE1': the byte is dropped
AckEnable(k) ==
    /\ wblk = k /\ wpc = "ack1"
    /\ rx' = Rest(1)
    /\ oplog' = Append(oplog, Entry("read1", k, <<>>))
    /\ IF k = "cmd"
       THEN wblk' = "que" /\ wpc' = "chk"
       ELSE wblk' = "poll" /\ wpc' = "read"
    /\ UNCHANGED <<pump, variant, cmd_q, que_q, res_q, running, stop_event, cmd, res,
                   line, cpc, creq, cret, pending, inflight, mode, devSent>>

\* line = readline()                               (notification poll)
PollRead ==
    /\ wblk = "poll" /\ wpc = "read"
    /\ \E n \in LineTakes :
         /\ line' = Recv(n)
         /\ rx' = Rest(n)
         /\ oplog' = Append(oplog, Entry("readline", "poll", Take(n)))
    /\ wpc' = "classify"
    /\ UNCHANGED <<pump, variant, cmd_q, que_q, res_q, running, stop_event, wblk, cmd,
                   res, cpc, creq, cret, pending, inflight, mode, devSent>>

\* self.running[ch] = status
SetRunning(ch, status) ==
    [c \in DOMAIN running \cup {ch} |-> IF c = ch THEN status ELSE running[c]]

\* a worker that takes every non-empty line for a start notification
Notification_loose(v) == IF v.s # <<>> THEN "start" ELSE "none"

\* line[:2] == '^U' / line[:2] == '^X': compared with a str literal
Notification(v) ==
    IF Prefix(v, 2) = S(<<"^", "U">>) THEN "start"
    ELSE IF Prefix(v, 2) = S(<<"^", "X">>) THEN "stop"
    ELSE "none"

\* ch = int(line[2]): IndexError on a short line, ValueError on a str
\* character that is no digit; indexing bytes gives the byte's code
ChannelOf(v) ==
    IF Len(v.s) < 3 THEN [ok |-> FALSE, ch |-> 0]
    ELSE IF v.t = "bytes" THEN [ok |-> TRUE, ch |-> Ord(v.s[3])]
    ELSE IF v.s[3] \in Digits THEN [ok |-> TRUE, ch |-> DigitVal(v.s[3])]
    ELSE [ok |-> FALSE, ch |-> 0]

\* if line: ... running[ch] = True / False.  An exception raised here is
\* caught nowhere in loop() or run(): the thread ends without close().
Classify ==
    /\ wblk = "poll" /\ wpc = "classify"
    /\ LET kind == IF line.s = <<>> THEN "none" ELSE Notification(line)
           p == ChannelOf(line)
       IN  IF kind = "none"
           THEN /\ wblk' = "run" /\ wpc' = "top"
                /\ UNCHANGED <<running, oplog>>
           ELSE IF p.ok
                THEN /\ running' = SetRunning(p.ch, kind = "start")
                     /\ oplog' = Append(oplog, Entry("running", "poll", <<>>))
                     /\ wblk' = "run" /\ wpc' = "top"
                ELSE /\ wblk' = "crashed" /\ wpc' = "end"
                     /\ UNCHANGED <<running, oplog>>
    /\ line' = NoVal
    /\ UNCHANGED <<pump, variant, cmd_q, que_q, res_q, stop_event, cmd, res, rx,
                   cpc, creq, cret, pending, inflight, mode, devSent>>

(***************************************************************************)
(* Caller threads: Communicator.write and Communicator.query.  A queue     *)
(* entry carries the payload; the field "by" (and "for" on res_q) is       *)
(* history that names the caller a payload came from.                      *)
(***************************************************************************)
Request(c, k, p) == [by |-> c, kind |-> k, data |-> B(p)]

\* The caller threads run the same code and each makes one call: they are
\* numbered in the order in which they enter write()/query().
MayCall(c) ==
    /\ cpc[c] = "idle"
    /\ \A d \in Callers : d < c => cpc[d] # "idle"

\* write(): self.cmd_q.put(cmd)
WritePut(c, p) ==
    /\ MayCall(c)
    /\ cmd_q' = Append(cmd_q, Request(c, "cmd", p))
    /\ creq' = [creq EXCEPT ![c] = Request(c, "cmd", p)]
    /\ cpc' = [cpc EXCEPT ![c] = "wait"]
    /\ pending' = Append(pending, c)
    /\ UNCHANGED <<pump, variant, que_q, res_q, running, stop_event, wblk, wpc, cmd,
                   res, line, rx, cret, inflight, mode, oplog, devSent>>

\* query(): self.que_q.put(cmd)
QueryPut(c, p) ==
    /\ MayCall(c)
    /\ que_q' = Append(que_q, Request(c, "que", p))
    /\ creq' = [creq EXCEPT ![c] = Request(c, "que", p)]
    /\ cpc' = [cpc EXCEPT ![c] = "wait"]
    /\ pending' = Append(pending, c)
    /\ UNCHANGED <<pump, variant, cmd_q, res_q, running, stop_event, wblk, wpc, cmd,
                   res, line, rx, cret, inflight, mode, oplog, devSent>>

\* return result == '*'
WriteResult(val) == (val = S(<<"*">>))

\* write(): result = self.res_q.get(); return True / False
WriteGet(c) ==
    /\ cpc[c] = "wait" /\ creq[c].kind = "cmd"
    /\ res_q # <<>>
    /\ LET result == Head(res_q)
       IN  cret' = [cret EXCEPT ![c] = [for |-> result.for,
                                        ok |-> WriteResult(result.val),
                                        text |-> NoVal]]
    /\ res_q' = Tail(res_q)
    /\ cpc' = [cpc EXCEPT ![c] = "ret"]
    /\ UNCHANGED <<pump, variant, cmd_q, que_q, running, stop_event, wblk, wpc, cmd,
                   res, line, rx, creq, pending, inflight, mode, oplog, devSent>>

\* query(): result = self.res_q.get().strip(); return result
QueryGet(c) ==
    /\ cpc[c] = "wait" /\ creq[c].kind = "que"
    /\ res_q # <<>>
    /\ LET result == Head(res_q)
       IN  cret' = [cret EXCEPT ![c] = [for |-> result.for,
                                        ok |-> FALSE,
                                        text |-> Strip(result.val)]]
    /\ res_q' = Tail(res_q)
    /\ cpc' = [cpc EXCEPT ![c] = "ret"]
    /\ UNCHANGED <<pump, variant, cmd_q, que_q, running, stop_event, wblk, wpc, cmd,
                   res, line, rx, creq, pending, inflight, mode, oplog, devSent>>

\* join(): self._stop_event.set()
Join ==
    /\ ~stop_event
    /\ stop_event' = TRUE
    /\ UNCHANGED <<pump, variant, cmd_q, que_q, res_q, running, wblk, wpc, cmd, res,
                   line, rx, cpc, creq, cret, pending, inflight, mode, oplog, devSent>>

(***************************************************************************)
(* The device at the other end of the transport: it may send any chunk at  *)
(* any time while the worker holds the transport open.                     *)
(***************************************************************************)
DeviceSend(chunk) ==
    /\ devSent < MaxDev
    /\ wblk \notin {"closed", "crashed"}
    /\ rx' = rx \o chunk
    /\ devSent' = devSent + 1
    /\ UNCHANGED <<pump, variant, cmd_q, que_q, res_q, running, stop_event, wblk, wpc,
                   cmd, res, line, cpc, creq, cret, pending, inflight, mode,
                   oplog>>

Next ==
    \/ Run
    \/ \E k \in Blocks : Check(k)
    \/ \E k \in Blocks : Flush(k)
    \/ \E k \in Blocks : Send(k)
    \/ RecvByte
    \/ RecvLine
    \/ \E k \in Blocks : Reply(k)
    \/ \E k \in Blocks : AckEnable(k)
    \/ PollRead
    \/ Classify
    \/ \E c \in Callers, p \in CmdPayloads : WritePut(c, p)
    \/ \E c \in Callers, p \in QueryPayloads : QueryPut(c, p)
    \/ \E c \in Callers : WriteGet(c)
    \/ \E c \in Callers : QueryGet(c)
    \/ Join
    \/ \E chunk \in DeviceChunks : DeviceSend(chunk)

Spec == Init /\ [][Next]_vars

\* The steps of the worker thread: run() and the loop() it calls.
Worker ==
    \/ Run
    \/ \E k \in Blocks : Check(k)
    \/ \E k \in Blocks : Flush(k)
    \/ \E k \in Blocks : Send(k)
    \/ RecvByte
    \/ RecvLine
    \/ \E k \in Blocks : Reply(k)
    \/ \E k \in Blocks : AckEnable(k)
    \/ PollRead
    \/ Classify

\* A worker that is started and never stopped: join() is not called.
NextLive ==
    \/ Worker
    \/ \E c \in Callers, p \in CmdPayloads : WritePut(c, p)
    \/ \E c \in Callers, p \in QueryPayloads : QueryPut(c, p)
    \/ \E c \in Callers : WriteGet(c)
    \/ \E c \in Callers : QueryGet(c)
    \/ \E chunk \in DeviceChunks : DeviceSend(chunk)

\* The worker is a thread of its own and every read has a timeout, so a
\* worker step that can be taken is taken; Queue.get() returns once the
\* queue holds an item that no other thread takes.
LiveSpec ==
    /\ Init /\ [][NextLive]_vars
    /\ WF_vars(Worker)
    /\ \A c \in Callers : WF_vars(WriteGet(c) \/ QueryGet(c))

\* A transport operation of loop() raises (socket.send / select / recv raise
\* OSError on a broken connection, pyserial raises SerialException): the
\* '1xE0' write of a block that found a request, or one of the reads.
\* Nothing in loop() or run() catches it, so the thread ends without close().
TransportRaises ==
    /\ \/ wblk \in Blocks /\ wpc = "chk" /\ Len(Q(wblk)) > 0
       \/ wblk \in Blocks /\ wpc \in {"ack0", "recv", "ack1"}
       \/ wblk = "poll" /\ wpc = "read"
    /\ wblk' = "crashed" /\ wpc' = "raised"
    /\ UNCHANGED <<pump, variant, cmd_q, que_q, res_q, running, stop_event, cmd, res,
                   line, rx, cpc, creq, cret, pending, inflight, mode, oplog,
                   devSent>>

NextFault ==
    \/ Next
    \/ TransportRaises

\* The scheduling of StopSpec, with a transport that may raise.
FaultSpec ==
    /\ Init /\ [][NextFault]_vars
    /\ WF_vars(Worker)
    /\ \A c \in Callers : WF_vars(WriteGet(c) \/ QueryGet(c))

\* The same scheduling, with join() allowed.
StopSpec ==
    /\ Init /\ [][Next]_vars
    /\ WF_vars(Worker)
    /\ \A c \in Callers : WF_vars(WriteGet(c) \/ QueryGet(c))

(***************************************************************************)
(* The running-status table as the client thread uses it:                  *)
(* Communicator.setRunningStatus and Pump.getRunning.                      *)
(***************************************************************************)
\* self.channels = list(range(1, nChannels + 1))
Channels == 1..NumChannels

\* the channel numbers a caller passes: 0 (all), the pump's channels, and
\* one number that is no channel of the pump
ChannelIds == 0..(NumChannels + 1)

\* the members of s as a list, like list(range(1, nChannels + 1))
RECURSIVE ListOf(_)
ListOf(s) ==
    IF s = {} THEN <<>>
    ELSE LET m == CHOOSE x \in s : \A y \in s : x <= y
         IN  <<m>> \o ListOf(s \ {m})

\* the channel arguments: each number, and each list of distinct numbers
\* (the order and repetitions in a list do not change what the loop over it
\* leaves in the table)
ChannelArgs ==
    {IntArg(n) : n \in ChannelIds} \cup
    {ListArg(ListOf(s)) : s \in SUBSET ChannelIds}

\* table[ch] = status
Assign(table, ch, status) ==
    [c \in DOMAIN table \cup {ch} |-> IF c = ch THEN status ELSE table[c]]

\* for ch in channel: self.running[ch] = status
RECURSIVE AssignEach(_, _, _)
AssignEach(table, chs, status) ==
    IF chs = <<>> THEN table
    ELSE AssignEach(Assign(table, Head(chs), status), Tail(chs), status)

\* a setRunningStatus that has no case for the sentinel 0
setRunningStatus_noSentinel(table, status, channel) ==
    IF channel.t = "list"
    THEN AssignEach(table, channel.l, status)
    ELSE Assign(table, channel.n, status)

\* a setRunningStatus that writes every tracked channel when given a list
setRunningStatus_listAll(table, status, channel) ==
    IF channel.t = "list" \/ channel.n = 0
    THEN [c \in DOMAIN table |-> status]
    ELSE Assign(table, channel.n, status)

\* Communicator.setRunningStatus: the table after the call
setRunningStatus(table, status, channel) ==
    IF channel.t = "list"
    THEN AssignEach(table, channel.l, status)
    ELSE IF channel.n = 0
         THEN [c \in DOMAIN table |-> status]
         ELSE Assign(table, channel.n, status)

SetRunningStatus(status, channel) ==
    /\ running' = setRunningStatus(running, status, channel)
    /\ call' = [op |-> "set", status |-> status, arg |-> channel,
                before |-> running, ok |-> TRUE, val |-> FALSE]
    /\ UNCHANGED <<variant, cmd_q, que_q, res_q, stop_event, wblk, wpc, cmd,
                   res, line, rx, cpc, creq, cret, pending, inflight, mode,
                   oplog, devSent, enc>>

\* Pump.getRunning: assert channel in self.channels (AssertionError), then
\* self.hw.running[channel] (KeyError when the key is absent)
getRunning(table, channel) ==
    IF channel \notin Channels THEN [ok |-> FALSE, val |-> FALSE]
    ELSE IF channel \notin DOMAIN table THEN [ok |-> FALSE, val |-> FALSE]
    ELSE [ok |-> TRUE, val |-> table[channel]]

GetRunning(channel) ==
    /\ call' = [op |-> "get", status |-> FALSE, arg |-> IntArg(channel),
                before |-> running,
                ok |-> getRunning(running, channel).ok,
                val |-> getRunning(running, channel).val]
    /\ UNCHANGED <<variant, cmd_q, que_q, res_q, running, stop_event, wblk,
                   wpc, cmd, res, line, rx, cpc, creq, cret, pending,
                   inflight, mode, oplog, devSent, enc>>

\* The table is empty after Communicator.__init__ and holds False for every
\* channel of the pump after Pump.__init__.
InitTable ==
    /\ variant \in {"serial", "socket"}
    /\ cmd_q = <<>> /\ que_q = <<>> /\ res_q = <<>>
    /\ running \in {<<>>, [c \in Channels |-> FALSE]}
    /\ stop_event = FALSE
    /\ wblk = "run" /\ wpc = "top"
    /\ cmd = NoReq /\ res = NoVal /\ line = NoVal
    /\ rx = <<>>
    /\ cpc = [c \in Callers |-> "idle"]
    /\ creq = [c \in Callers |-> NoReq]
    /\ cret = [c \in Callers |-> NoRet]
    /\ pending = <<>> /\ inflight = {}
    /\ mode = "none" /\ oplog = <<>> /\ devSent = 0
    /\ call = NoCall
    /\ enc = NoEnc

NextTable ==
    \/ \E status \in BOOLEAN, channel \in ChannelArgs :
          SetRunningStatus(status, channel)
    \/ \E channel \in ChannelIds : GetRunning(channel)

TableSpec == InitTable /\ [][NextTable]_vars

(***************************************************************************)
(* The number encoders of Pump.                                            *)
(***************************************************************************)
TimeCap == 35964000
TimeWidth == 8

Units == {"s", "m", "h"}

DigitChar(d) ==
    CASE d = 0 -> "0" [] d = 1 -> "1" [] d = 2 -> "2" [] d = 3 -> "3"
      [] d = 4 -> "4" [] d = 5 -> "5" [] d = 6 -> "6" [] d = 7 -> "7"
      [] d = 8 -> "8" [] d = 9 -> "9"

\* str(n) of an int
RECURSIVE Str(_)
Str(n) == IF n < 0 THEN <<"-">> \o Str(0 - n)
          ELSE IF n < 10 THEN <<DigitChar(n)>>
          ELSE Append(Str(n \div 10), DigitChar(n % 10))

\* s.zfill(w): the zeros go after a leading sign
RECURSIVE ZFill(_, _)
ZFill(s, w) ==
    IF Len(s) >= w THEN s
    ELSE IF s # <<>> /\ Head(s) \in {"+", "-"}
         THEN ZFill(<<Head(s), "0">> \o Tail(s), w)
         ELSE ZFill(<<"0">> \o s, w)

\* number = 10 * number; if units == 'm': number = 60 * number;
\* if units == 'h': number = 60 * number
Tenths(number, units) ==
    LET a == 10 * number
        b == IF units = "m" THEN 60 * a ELSE a
    IN  IF units = "h" THEN 60 * b ELSE b

\* Pump._time2 of an int: str(min(number, 35964000)).replace('.', '')
\* .zfill(8).encode(); the str of an int holds no '.'
time2(number, units) ==
    B(ZFill(Str(Min(Tenths(number, units), TimeCap)), TimeWidth))

\* Pump._time1 of an int: str(min(number, 35964000)).replace('.', '').encode()
time1(number, units) == B(Str(Min(Tenths(number, units), TimeCap)))

Discrete3Width == 6

\* Pump._discrete3 of an int: str(number).zfill(6).encode()
discrete3(number) == B(ZFill(Str(number), Discrete3Width))

\* The durations encoded: the small ones in every unit, and in each unit
\* the last duration below the cap and the first one at it.
TimeInputs ==
    ((0..MaxDuration) \X Units) \cup
    {<<3596399, "s">>, <<3596400, "s">>, <<3596401, "s">>,
     <<59939, "m">>, <<59940, "m">>, <<59941, "m">>,
     <<998, "h">>, <<999, "h">>, <<1000, "h">>}

InitTime ==
    /\ variant \in {"serial", "socket"}
    /\ cmd_q = <<>> /\ que_q = <<>> /\ res_q = <<>>
    /\ running = <<>>
    /\ stop_event = FALSE
    /\ wblk = "run" /\ wpc = "top"
    /\ cmd = NoReq /\ res = NoVal /\ line = NoVal
    /\ rx = <<>>
    /\ cpc = [c \in Callers |-> "idle"]
    /\ creq = [c \in Callers |-> NoReq]
    /\ cret = [c \in Callers |-> NoRet]
    /\ pending = <<>> /\ inflight = {}
    /\ mode = "none" /\ oplog = <<>> /\ devSent = 0
    /\ call = NoCall
    /\ enc \in {[fn |-> "none", number |-> i[1], units |-> i[2],
                 out |-> B(<<>>)] : i \in TimeInputs}

Time2 ==
    /\ enc.fn = "none"
    /\ enc' = [enc EXCEPT !.fn = "time2",
                          !.out = time2(enc.number, enc.units)]
    /\ UNCHANGED <<variant, cmd_q, que_q, res_q, running, stop_event, wblk,
                   wpc, cmd, res, line, rx, cpc, creq, cret, pending,
                   inflight, mode, oplog, devSent, call>>

NextTime == Time2

TimeSpec == InitTime /\ [][NextTime]_vars

(***************************************************************************)
(* Pump._volume1, _volume2, _discrete2: encoders of a float.  The model    *)
(* holds a float as a signed integer in fixed point: thousandths for the   *)
(* volume encoders, hundredths for _discrete2.                             *)
(***************************************************************************)
Abs(n) == IF n < 0 THEN 0 - n ELSE n

RECURSIVE Pow10(_)
Pow10(k) == IF k = 0 THEN 1 ELSE 10 * Pow10(k - 1)

\* '%.3e' % a, a >= 0 in thousandths: d.ddde+XX, the mantissa rounded to the
\* nearest (no input of the model lies half way between two mantissas)
Format3e(a) ==
    LET nd == Len(Str(a))
        cut == Pow10(IF nd > 4 THEN nd - 4 ELSE 0)
        m0 == IF nd > 4
              THEN (a \div cut) + (IF 2 * (a % cut) >= cut THEN 1 ELSE 0)
              ELSE a * Pow10(4 - nd)
        carry == m0 = 10000
        m == IF carry THEN 1000 ELSE m0
        e == IF a = 0 THEN 0 ELSE (nd - 4) + (IF carry THEN 1 ELSE 0)
        d == ZFill(Str(m), 4)
    IN  <<d[1], ".", d[2], d[3], d[4], "e", IF e < 0 THEN "-" ELSE "+">>
        \o ZFill(Str(Abs(e)), 2)

\* a four-character encoding: three mantissa digits and the exponent digit
volume2_short(number) ==
    LET s == Format3e(Abs(number))
    IN  B(<<s[1]>> \o SubSeq(s, 3, 4) \o <<s[Len(s)]>>)

\* number[0] + number[2:5] + number[-3] + number[-1]
volume2(number) ==
    LET s == Format3e(Abs(number))
    IN  B(<<s[1]>> \o SubSeq(s, 3, 5) \o <<s[Len(s) - 2], s[Len(s)]>>)

\* number[0] + number[2:5] + 'E' + number[-3] + number[-1]
volume1(number) ==
    LET s == Format3e(Abs(number))
    IN  B(<<s[1]>> \o SubSeq(s, 3, 5) \o <<"E", s[Len(s) - 2], s[Len(s)]>>)

\* str(number) of a float with at most two decimals, h in hundredths
StrFloat(h) ==
    LET a == Abs(h)
        f == a % 100
    IN  (IF h < 0 THEN <<"-">> ELSE <<>>) \o Str(a \div 100) \o <<".">>
        \o (IF f % 10 = 0 THEN <<DigitChar(f \div 10)>>
            ELSE <<DigitChar(f \div 10), DigitChar(f % 10)>>)

\* s.strip('0')
RECURSIVE LStrip0(_)
LStrip0(s) == IF s # <<>> /\ Head(s) = "0" THEN LStrip0(Tail(s)) ELSE s

RECURSIVE RStrip0(_)
RStrip0(s) ==
    IF s # <<>> /\ s[Len(s)] = "0"
    THEN RStrip0(SubSeq(s, 1, Len(s) - 1))
    ELSE s

\* s.split('.') of a string with one point: the parts before and after it
PointAt(s) == CHOOSE i \in 1..Len(s) : s[i] = "."
Whole(s) == SubSeq(s, 1, PointAt(s) - 1)
Decimals(s) == SubSeq(s, PointAt(s) + 1, Len(s))

\* int(s): a ValueError unless s is digits after an optional sign
IsInt(s) ==
    LET d == IF s # <<>> /\ Head(s) \in {"+", "-"} THEN Tail(s) ELSE s
    IN  d # <<>> /\ \A i \in 1..Len(d) : d[i] \in Digits

RECURSIVE IntOfDigits(_)
IntOfDigits(d) ==
    IF d = <<>> THEN 0
    ELSE 10 * IntOfDigits(SubSeq(d, 1, Len(d) - 1)) + DigitVal(d[Len(d)])

IntOf(s) ==
    IF Head(s) = "-" THEN 0 - IntOfDigits(Tail(s))
    ELSE IF Head(s) = "+" THEN IntOfDigits(Tail(s))
    ELSE IntOfDigits(s)

ValueError == [t |-> "raise", s |-> <<"ValueError">>]

Discrete2Width == 4

\* s = str(number).strip('0'); whole, decimals = s.split('.');
\* b'%04d' % int(whole + decimals)
discrete2(number) ==
    LET s == LStrip0(RStrip0(StrFloat(number)))
        digits == Whole(s) \o Decimals(s)
    IN  IF IsInt(digits)
        THEN B(ZFill(Str(IntOf(digits)), Discrete2Width))
        ELSE ValueError

\* The numbers encoded, of either sign: the small ones and a few larger
EncNumbers ==
    LET large == {100, 300, 317, 1000, 2500, 12344, 25000, 99996, 123456}
    IN  ((0 - MaxNumber)..MaxNumber) \cup large \cup {0 - n : n \in large}

InitEnc ==
    /\ variant \in {"serial", "socket"}
    /\ cmd_q = <<>> /\ que_q = <<>> /\ res_q = <<>>
    /\ running = <<>>
    /\ stop_event = FALSE
    /\ wblk = "run" /\ wpc = "top"
    /\ cmd = NoReq /\ res = NoVal /\ line = NoVal
    /\ rx = <<>>
    /\ cpc = [c \in Callers |-> "idle"]
    /\ creq = [c \in Callers |-> NoReq]
    /\ cret = [c \in Callers |-> NoRet]
    /\ pending = <<>> /\ inflight = {}
    /\ mode = "none" /\ oplog = <<>> /\ devSent = 0
    /\ call = NoCall
    /\ enc \in {[fn |-> "none", number |-> n, units |-> u, out |-> B(<<>>)] :
                 n \in EncNumbers, u \in Units}

Encode(fn, out) ==
    /\ enc.fn = "none"
    /\ enc' = [enc EXCEPT !.fn = fn, !.out = out]
    /\ UNCHANGED <<variant, cmd_q, que_q, res_q, running, stop_event, wblk,
                   wpc, cmd, res, line, rx, cpc, creq, cret, pending,
                   inflight, mode, oplog, devSent, call>>

Time1 == Encode("time1", time1(enc.number, enc.units))
Volume1 == Encode("volume1", volume1(enc.number))
Volume2 == Encode("volume2", volume2(enc.number))
Discrete2 == Encode("discrete2", discrete2(enc.number))
Discrete3 == Encode("discrete3", discrete3(enc.number))

NextEnc ==
    \/ Time1
    \/ Time2
    \/ Volume1
    \/ Volume2
    \/ Discrete2
    \/ Discrete3

EncSpec == InitEnc /\ [][NextEnc]_vars

(***************************************************************************)
(* readline() on its own: the worker is at its notification poll and the   *)
(* transport holds any short sequence of bytes.                            *)
(***************************************************************************)
LineChars == {"*", "4", CR, LF}

Buffers == UNION {[1..n -> LineChars] : n \in 0..MaxBuf}

InitLine ==
    /\ variant \in {"serial", "socket"}
    /\ cmd_q = <<>> /\ que_q = <<>> /\ res_q = <<>>
    /\ running = <<>>
    /\ stop_event = FALSE
    /\ wblk = "poll" /\ wpc = "read"
    /\ cmd = NoReq /\ res = NoVal /\ line = NoVal
    /\ rx \in Buffers
    /\ cpc = [c \in Callers |-> "idle"]
    /\ creq = [c \in Callers |-> NoReq]
    /\ cret = [c \in Callers |-> NoRet]
    /\ pending = <<>> /\ inflight = {}
    /\ mode = "none" /\ oplog = <<>> /\ devSent = 0
    /\ call = NoCall
    /\ enc = NoEnc

NextLine ==
    \/ PollRead
    \/ Classify

LineSpec == InitLine /\ [][NextLine]_vars

(***************************************************************************)
(* The operations of Pump that start and stop pumping.  A call of          *)
(* hw.command / hw.query is one step: the request is put on its queue and  *)
(* the call returns what the worker read for it.  The frame of the call is *)
(* held in the variable call; its field log lists, in order, the requests  *)
(* put on the queues and the calls of setRunningStatus; its field arg is   *)
(* the channel the caller passed (None when it passed none) and its field  *)
(* replies the maximum rates the device has reported to the call.  Rates   *)
(* and volumes are floats, held in thousandths.                            *)
(***************************************************************************)
None == 0 - 1

\* the maximum flow rates a channel may report to '<ch>?', in thousandths
MaxRates == {2000, 2500}

\* if units == 'rpm': maxrate = 100
MaxRpm == 100000

Rates == {0 - 3000, 0 - 1000, 0, 1000, 3000}
Vols == {0 - 1000, 1000}
RateUnits == {"ml/min", "rpm"}
Operations == {"continuousFlow", "dispense_vol_at_rate",
               "dispense_vol_over_time", "dispense_flow_over_time", "stop"}

\* one entry of the log: a request (k = "command" / "query", c the letters
\* after the channel digit, num the number given to the encoder enc) or a
\* call of setRunningStatus (k = "set", c = "True" / "False")
Ev(k, ch, c, enc_, num) == [k |-> k, ch |-> ch, c |-> c, enc |-> enc_,
                            num |-> num]
Command(ch, c) == Ev("command", ch, c, "none", 0)
Query(ch, c) == Ev("query", ch, c, "none", 0)
QueryNum(ch, c, enc_, num) == Ev("query", ch, c, enc_, num)
Set(status, ch) == Ev("set", ch, IF status THEN "True" ELSE "False", "none", 0)

NoFrame == [op |-> "none", pc |-> "idle", channels |-> {}, arg |-> None,
            channel |-> None,
            units |-> "ml/min", rate |-> 0, vol |-> 0, time |-> 0,
            maxrate |-> 0, todo |-> <<>>, maxrates |-> <<>>,
            replies |-> {}, prog |-> <<>>,
            log |-> <<>>, error |-> "none", ret |-> FALSE]

\* min(maxrates) of a list that is not empty
RECURSIVE MinOf(_)
MinOf(l) == IF Len(l) = 1 THEN l[1] ELSE Min(l[1], MinOf(Tail(l)))

\* a rate passed on as it was requested
Clamp_none(rate, maxrate) == rate

\* if abs(rate) > maxrate: rate = rate / abs(rate) * maxrate
Clamp(rate, maxrate) ==
    IF Abs(rate) > maxrate
    THEN (IF rate < 0 THEN 0 - maxrate ELSE maxrate)
    ELSE rate

\* continuousFlow after the assert: mode, direction, rate, running, start
continuousFlow(rate, channel, maxrate) ==
    << Command(channel, "M"),
       Command(channel, IF rate < 0 THEN "K" ELSE "J"),
       QueryNum(channel, "f", "volume2", Clamp(rate, maxrate)),
       Set(TRUE, channel),
       Command(channel, "H") >>

\* a dispense_vol_at_rate that starts the pump before it sets the table
dispense_vol_at_rate_late(vol, rate, units, channel, maxrate) ==
    LET r0 == IF vol < 0 THEN 0 - rate ELSE rate
        r == Clamp(r0, maxrate)
    IN  << Command(channel, "O"),
           Command(channel, IF r0 < 0 THEN "K" ELSE "J"),
           QueryNum(channel, "f", "volume2", r),
           IF units = "rpm"
           THEN Ev("command", channel, "S", "discrete3", r * 100)
           ELSE QueryNum(channel, "f", "volume2", r),
           QueryNum(channel, "v", "volume2", Abs(vol)),
           Command(channel, "H"),
           Set(TRUE, channel) >>

\* dispense_vol_at_rate after the assert: a negative vol turns the sign of
\* both vol and rate before the direction is chosen
dispense_vol_at_rate(vol, rate, units, channel, maxrate) ==
    LET r0 == IF vol < 0 THEN 0 - rate ELSE rate
        r == Clamp(r0, maxrate)
    IN  << Command(channel, "O"),
           Command(channel, IF r0 < 0 THEN "K" ELSE "J"),
           QueryNum(channel, "f", "volume2", r),
           IF units = "rpm"
           THEN Ev("command", channel, "S", "discrete3", r * 100)
           ELSE QueryNum(channel, "f", "volume2", r),
           QueryNum(channel, "v", "volume2", Abs(vol)),
           Set(TRUE, channel),
           Command(channel, "H") >>

\* dispense_vol_over_time after the assert
dispense_vol_over_time(vol, time, channel) ==
    << Command(channel, "G"),
       Command(channel, IF vol < 0 THEN "K" ELSE "J"),
       QueryNum(channel, "v", "volume2", Abs(vol)),
       QueryNum(channel, "xT", "time2", time),
       Set(TRUE, channel),
       Command(channel, "H") >>

\* dispense_flow_over_time after the assert
dispense_flow_over_time(rate, time, channel) ==
    << Command(channel, IF rate < 0 THEN "K" ELSE "J"),
       Query(channel, "M"),
       Command(channel, "N"),
       QueryNum(channel, "f", "volume2", Abs(rate)),
       QueryNum(channel, "xT", "time2", time),
       Set(TRUE, channel),
       Command(channel, "H") >>

\* stop after the assert
stop(channel) == << Set(FALSE, channel), Command(channel, "I") >>

\* the statements of the running operation that follow its assert
Program(f) ==
    CASE f.op = "continuousFlow" ->
            continuousFlow(f.rate, f.channel, f.maxrate)
      [] f.op = "dispense_vol_at_rate" ->
            dispense_vol_at_rate(f.vol, f.rate, f.units, f.channel, f.maxrate)
      [] f.op = "dispense_vol_over_time" ->
            dispense_vol_over_time(f.vol, f.time, f.channel)
      [] f.op = "dispense_flow_over_time" ->
            dispense_flow_over_time(f.rate, f.time, f.channel)
      [] f.op = "stop" -> stop(f.channel)

PumpUnchanged ==
    UNCHANGED <<cmd_q, que_q, res_q, stop_event, wblk, wpc, cmd, res, line,
                rx, cpc, creq, cret, pending, inflight, mode, oplog, devSent,
                enc, variant>>

\* Pump.__init__ has set self.channels = list(range(1, nChannels + 1)) and
\* seeded the table with False for each of them
InitPump ==
    /\ variant \in {"serial", "socket"}
    /\ cmd_q = <<>> /\ que_q = <<>> /\ res_q = <<>>
    /\ \E n \in 0..NumChannels :
         /\ running = [c \in 1..n |-> FALSE]
         /\ call = [NoFrame EXCEPT !.channels = 1..n]
    /\ stop_event = FALSE
    /\ wblk = "run" /\ wpc = "top"
    /\ cmd = NoReq /\ res = NoVal /\ line = NoVal
    /\ rx = <<>>
    /\ cpc = [c \in Callers |-> "idle"]
    /\ creq = [c \in Callers |-> NoReq]
    /\ cret = [c \in Callers |-> NoRet]
    /\ pending = <<>> /\ inflight = {}
    /\ mode = "none" /\ oplog = <<>> /\ devSent = 0
    /\ enc = NoEnc

\* the call is made: the statements before the first request.  The two
\* operations that clamp the rate first learn the maximum: 100 for rpm, the
\* least maximum of all channels when channel is None (which becomes 0),
\* the maximum of the channel otherwise.  stop turns None into 0; the two
\* operations with the default channel=0 go straight to their assert.
Invoke(op, channel, units, rate, vol) ==
    /\ call.pc = "idle"
    /\ LET f == [call EXCEPT !.op = op, !.arg = channel, !.channel = channel,
                              !.units = units, !.rate = rate, !.vol = vol,
                              !.time = 1]
           clamps == op \in {"continuousFlow", "dispense_vol_at_rate"}
       IN  call' =
             IF clamps /\ op = "dispense_vol_at_rate" /\ units = "rpm"
             THEN [f EXCEPT !.maxrate = MaxRpm, !.pc = "assert"]
             ELSE IF clamps /\ channel = None
             THEN [f EXCEPT !.channel = 0, !.todo = ListOf(call.channels),
                            !.pc = "maxrates"]
             ELSE IF clamps
             THEN [f EXCEPT !.todo = <<channel>>, !.pc = "maxrate"]
             ELSE IF op = "stop" /\ channel = None
             THEN [f EXCEPT !.channel = 0, !.pc = "assert"]
             ELSE [f EXCEPT !.pc = "assert"]
    /\ UNCHANGED running
    /\ PumpUnchanged

\* float(self.hw.query(b'%d?' % ch).split(' ')[0]): the serial variant
\* returns bytes, whose split(' ') raises TypeError; a reply that is no
\* number (the empty reply of a read that timed out) raises ValueError
MaxRate(reply, answered) ==
    /\ call.pc \in {"maxrates", "maxrate"}
    /\ call.todo # <<>>
    /\ LET f == [call EXCEPT !.log = Append(@, Query(Head(call.todo), "?")),
                              !.todo = Tail(@)]
       IN  call' =
             IF variant = "serial"
             THEN [f EXCEPT !.pc = "raised", !.error = "TypeError"]
             ELSE IF ~answered
             THEN [f EXCEPT !.pc = "raised", !.error = "ValueError"]
             ELSE IF call.pc = "maxrate"
             THEN [f EXCEPT !.maxrate = reply, !.pc = "assert",
                            !.replies = @ \cup {reply}]
             ELSE [f EXCEPT !.maxrates = Append(@, reply),
                            !.replies = @ \cup {reply}]
    /\ UNCHANGED running
    /\ PumpUnchanged

\* maxrate = min(maxrates): ValueError on the empty list
MinRate ==
    /\ call.pc = "maxrates"
    /\ call.todo = <<>>
    /\ call' = IF call.maxrates = <<>>
               THEN [call EXCEPT !.pc = "raised", !.error = "ValueError"]
               ELSE [call EXCEPT !.maxrate = MinOf(call.maxrates),
                                 !.pc = "assert"]
    /\ UNCHANGED running
    /\ PumpUnchanged

\* assert channel in self.channels or channel == 0
AssertChannel ==
    /\ call.pc = "assert"
    /\ call' = IF call.channel \in call.channels \/ call.channel = 0
               THEN [call EXCEPT !.prog = Program(call), !.pc = "run"]
               ELSE [call EXCEPT !.pc = "raised", !.error = "AssertionError"]
    /\ UNCHANGED running
    /\ PumpUnchanged

\* the next statement: a request, whose reply the operation does not look
\* at, or self.hw.setRunningStatus(status, channel)
Statement ==
    /\ call.pc = "run"
    /\ call.prog # <<>>
    /\ LET e == Head(call.prog)
       IN  /\ running' = IF e.k = "set"
                         THEN setRunningStatus(running, e.c = "True",
                                               IntArg(e.ch))
                         ELSE running
           /\ call' = [call EXCEPT !.log = Append(@, e), !.prog = Tail(@)]
    /\ PumpUnchanged

\* the operation returns; stop returns what its command returned
Return(ok) ==
    /\ call.pc = "run"
    /\ call.prog = <<>>
    /\ call' = [call EXCEPT !.pc = "done",
                            !.ret = IF call.op = "stop" THEN ok ELSE FALSE]
    /\ UNCHANGED running
    /\ PumpUnchanged

NextPump ==
    \/ \E op \in Operations, channel \in ChannelIds \cup {None},
          units \in RateUnits, rate \in Rates, vol \in Vols :
          Invoke(op, channel, units, rate, vol)
    \/ \E reply \in MaxRates, answered \in BOOLEAN : MaxRate(reply, answered)
    \/ MinRate
    \/ AssertChannel
    \/ Statement
    \/ \E ok \in BOOLEAN : Return(ok)

PumpSpec == InitPump /\ [][NextPump]_vars

(***************************************************************************)
(* Pump.stop called by the client threads while the worker runs: the       *)
(* client writes the table and then waits for its command, the worker      *)
(* writes the table when it polls a notification.  The device acknowledges *)
(* a payload it has received; what else it sends, it sends before a stop   *)
(* request has reached it.                                                 *)
(***************************************************************************)
\* the channels stop is called with: 0 (all, also for None) and the pump's
StopChannels == 0..NumChannels

\* b'%dI' % channel
StopPayload(channel) == Str(channel) \o <<"I">>

\* channel = 0 if channel is None else channel; assert ...;
\* self.hw.setRunningStatus(False, channel)
StopSet(c, channel) ==
    /\ MayCall(c)
    /\ running' = setRunningStatus(running, FALSE, IntArg(channel))
    /\ creq' = [creq EXCEPT ![c] = Request(c, "cmd", StopPayload(channel))]
    /\ cpc' = [cpc EXCEPT ![c] = "set"]
    /\ UNCHANGED <<pump, variant, cmd_q, que_q, res_q, stop_event, wblk, wpc,
                   cmd, res, line, rx, cret, pending, inflight, mode, oplog,
                   devSent>>

\* return self.hw.command(b'%dI' % channel): the put of write()
StopCommand(c) ==
    /\ cpc[c] = "set"
    /\ cmd_q' = Append(cmd_q, creq[c])
    /\ cpc' = [cpc EXCEPT ![c] = "wait"]
    /\ pending' = Append(pending, c)
    /\ UNCHANGED <<pump, variant, que_q, res_q, running, stop_event, wblk, wpc,
                   cmd, res, line, rx, creq, cret, inflight, mode, oplog,
                   devSent>>

\* the device answers the payload it has received with '*'
DeviceAck ==
    /\ wblk = "cmd" /\ wpc = "recv"
    /\ rx = <<>>
    /\ rx' = <<"*">>
    /\ UNCHANGED <<pump, variant, cmd_q, que_q, res_q, running, stop_event,
                   wblk, wpc, cmd, res, line, cpc, creq, cret, pending,
                   inflight, mode, oplog, devSent>>

\* no payload of a stop call has been written to the transport
NoneWritten ==
    \A c \in Callers :
        \/ cpc[c] \in {"idle", "set"}
        \/ \E i \in 1..Len(pending) : pending[i] = c

\* a chunk the device sent before it received a stop request
DeviceSendEarly(chunk) == NoneWritten /\ DeviceSend(chunk)

\* Pump.__init__ has seeded the table with False for every channel
InitRace ==
    /\ variant \in {"serial", "socket"}
    /\ cmd_q = <<>> /\ que_q = <<>> /\ res_q = <<>>
    /\ running = [c \in Channels |-> FALSE]
    /\ stop_event = FALSE
    /\ wblk = "run" /\ wpc = "top"
    /\ cmd = NoReq /\ res = NoVal /\ line = NoVal
    /\ rx = <<>>
    /\ cpc = [c \in Callers |-> "idle"]
    /\ creq = [c \in Callers |-> NoReq]
    /\ cret = [c \in Callers |-> NoRet]
    /\ pending = <<>> /\ inflight = {}
    /\ mode = "none" /\ oplog = <<>> /\ devSent = 0
    /\ call = NoCall
    /\ enc = NoEnc

NextRace ==
    \/ Run
    \/ \E k \in Blocks : Check(k)
    \/ \E k \in Blocks : Flush(k)
    \/ \E k \in Blocks : Send(k)
    \/ RecvByte
    \/ \E k \in Blocks : Reply(k)
    \/ \E k \in Blocks : AckEnable(k)
    \/ PollRead
    \/ Classify
    \/ \E c \in Callers, channel \in StopChannels : StopSet(c, channel)
    \/ \E c \in Callers : StopCommand(c)
    \/ \E c \in Callers : WriteGet(c)
    \/ \E chunk \in DeviceChunks : DeviceSendEarly(chunk)
    \/ DeviceAck

RaceSpec == InitRace /\ [][NextRace]_vars

(***************************************************************************)
(* Properties                                                              *)
(***************************************************************************)
Idx == 1..Len(oplog)

IsDisable(i) == oplog[i].op = "write" /\ oplog[i].arg = DisableAsync
IsEnable(i) == oplog[i].op = "write" /\ oplog[i].arg = EnableAsync
IsPoll(i) == oplog[i].op = "readline" /\ oplog[i].blk = "poll"
IsGet(i) == oplog[i].op = "get"
IsPut(i) == oplog[i].op = "put"

\* the writes of the current loop() call, in order
Writes == SelectSeq(oplog, LAMBDA e : e.op = "write")

\* the step of a caller in which res_q.get() returns
Gets(c) == cpc[c] = "wait" /\ cpc'[c] = "ret"

\* the step in which the worker pops a request and writes its payload
Sends == wpc = "get" /\ wpc' = "recv"

\* the step in which the worker interprets the polled line
Classifies == wblk = "poll" /\ wpc = "classify" /\ wblk' # "poll"

\* the polled line starts with ^U or ^X
HasPrefix ==
    /\ Len(line.s) >= 2
    /\ line.s[1] = "^"
    /\ line.s[2] \in {"U", "X"}

\* C1: every call returns the reply the worker read for that call's own
\* payload, also with several callers calling concurrently.
C1_ReplyMatchesRequest ==
    \A c \in Callers : cpc[c] = "ret" => cret[c].for = c

\* C2: payloads are written in the order in which the requests were put on
\* the queues, command and query requests taken together.
C2_WriteOrderIsEnqueueOrder ==
    [][Sends => cmd'.by = Head(pending)]_vars

\* C3: at most one request is in flight: the payloads written whose reply is
\* not yet on the response queue number 0 or 1.
C3_AtMostOneInFlight == Cardinality(inflight) <= 1

\* a request is in flight while another request waits in a queue
C3_Witness ==
    /\ Cardinality(inflight) = 1
    /\ Len(cmd_q) + Len(que_q) >= 1

\* C4: no notification poll and no update of running by the worker between
\* the write of '1xE0' and the write of '1xE1'; a poll happens only when the
\* last mode command written, if any, is '1xE1'.
C4_NoPollWhileReplyExpected ==
    /\ wblk = "poll" => mode # "E0"
    /\ \A j \in Idx :
         (IsPoll(j) \/ oplog[j].op = "running")
            => \A i \in 1..(j - 1) :
                 IsDisable(i) => \E m \in (i + 1)..(j - 1) : IsEnable(m)

\* the poll has read a line after a request was serviced in the same loop()
C4_Witness ==
    /\ wblk = "poll" /\ wpc = "classify"
    /\ line.s # <<>>
    /\ mode = "E1"
    /\ \E i \in Idx : IsEnable(i)

\* C5: after a request is completed ('1xE1' written, its acknowledgement
\* read) the worker polls for a notification before the next '1xE0'.
C5_PollBetweenRequests ==
    \A j \in Idx :
        IsDisable(j)
            => \A i \in 1..(j - 1) :
                 IsEnable(i) => \E m \in (i + 1)..(j - 1) : IsPoll(m)

\* C6: a loop() call that services a command with payload p and no query
\* writes exactly '1xE0\r', p + '\r', '1xE1\r', the poll writing nothing.
C6_CommandWriteSequence ==
    wblk \in {"poll", "run"} =>
      \A i \in Idx :
        (/\ IsGet(i) /\ oplog[i].blk = "cmd"
         /\ \A j \in Idx : oplog[j].blk # "que")
            => Writes = << Entry("write", "cmd", DisableAsync),
                           Entry("write", "cmd", oplog[i].arg \o <<CR>>),
                           Entry("write", "cmd", EnableAsync) >>

\* a loop() call has serviced one command, polled, and no request is left
C6_Witness ==
    /\ wblk = "run" /\ wpc = "top"
    /\ \E i \in Idx : IsGet(i) /\ oplog[i].blk = "cmd"
    /\ \A j \in Idx : oplog[j].blk # "que"
    /\ \E j \in Idx : IsPoll(j)
    /\ cmd_q = <<>> /\ que_q = <<>>

\* callers whose request the worker has popped and answered
Answered ==
    {c \in Callers : /\ cpc[c] # "idle"
                     /\ c \notin inflight
                     /\ \A n \in 1..Len(pending) : pending[n] # c}

\* C7: for each request popped the worker writes payload + CR once, does one
\* reply read (one byte for the command queue, one line for the query
\* queue) and puts one value on the response queue, also on a timeout.
C7_ConsumedExactlyOnce ==
    /\ \A i \in Idx : IsGet(i) =>
         LET k == oplog[i].blk
             at(n) == oplog[i + n]
             has(n) == i + n <= Len(oplog)
         IN  /\ has(1)
             /\ at(1) = Entry("write", k, oplog[i].arg \o <<CR>>)
             /\ has(2) => at(2) = Entry(IF k = "cmd" THEN "read1" ELSE "readline",
                                        k, <<>>)
             /\ has(3) => at(3) = Entry("put", k, <<>>)
             /\ has(4) => at(4) = Entry("write", k, EnableAsync)
             /\ (wblk # k) => has(4)
    /\ \A j \in Idx : IsPut(j) => (j > 3 /\ IsGet(j - 3))
    /\ Len(res_q) + Cardinality({c \in Callers : cpc[c] = "ret"})
          = Cardinality(Answered)

\* the reply read timed out and the empty value was put on the response queue
C7_Witness ==
    /\ wblk \in Blocks /\ wpc = "ack1"
    /\ res_q # <<>>
    /\ res_q[Len(res_q)].val.s = <<>>

\* C8: write() returns true exactly when the reply is the single byte '*',
\* in the serial and in the socket variant.
C8_WriteTrueIffAck ==
    [][\A c \in Callers :
          (Gets(c) /\ creq[c].kind = "cmd")
             => (cret'[c].ok <=> (Head(res_q).val.s = <<"*">>))]_vars

\* C9: a polled line '^U' + digit d sets running[d] to true, '^X' + digit d
\* sets it to false, in the serial and in the socket variant.
C9_NotificationSetsRunning ==
    [][(Classifies /\ HasPrefix /\ Len(line.s) >= 3 /\ line.s[3] \in Digits)
          => /\ DigitVal(line.s[3]) \in DOMAIN running'
             /\ running'[DigitVal(line.s[3])] = (line.s[2] = "U")]_vars

\* C10: a polled line with the prefix '^U' or '^X' that is too short or has
\* no digit as third character is discarded: running is unchanged and the
\* worker goes on to its next loop() call.
C10_MalformedDiscarded ==
    [][(Classifies /\ HasPrefix /\ (Len(line.s) < 3 \/ line.s[3] \notin Digits))
          => (running' = running /\ wblk' = "run")]_vars

\* the characters of the line the poll of this loop() call returned
Polled == SelectSeq(oplog, LAMBDA e : e.op = "readline" /\ e.blk = "poll")

\* C11: a non-empty polled line that starts with neither ^U nor ^X leaves
\* running, both request queues and the response queue as they were, and the
\* worker goes on to its next loop() call.
C11_GarbageLineIgnored ==
    [][(Classifies /\ line.s # <<>> /\ ~HasPrefix)
          => (/\ running' = running
              /\ cmd_q' = cmd_q /\ que_q' = que_q /\ res_q' = res_q
              /\ wblk' = "run" /\ wpc' = "top")]_vars

\* the worker is back at the top of run() after polling a non-empty line
\* without notification prefix
C11_Witness ==
    /\ wblk = "run" /\ wpc = "top"
    /\ Len(Polled) = 1
    /\ Polled[1].arg # <<>>
    /\ ~(/\ Len(Polled[1].arg) >= 2
         /\ Polled[1].arg[1] = "^"
         /\ Polled[1].arg[2] \in {"U", "X"})

C13_EveryCallReturns ==
    \A c \in Callers : (cpc[c] = "wait") ~> (cpc[c] = "ret")

\* while the worker thread lives, every call returns
C13_ReturnsUnlessWorkerEnded ==
    \A c \in Callers : (cpc[c] = "wait") ~> (cpc[c] = "ret" \/ wblk = "crashed")

\* a step of the worker thread
WorkerSteps == <<wblk, wpc>>' # <<wblk, wpc>>

\* C14: in a loop() call that finds both request queues empty and nothing
\* to read, the worker writes nothing, does one line read that returns the
\* empty line without raising, leaves running and the three queues as they
\* were, and returns to run() for the next call.
C14_IdleIteration ==
    [][/\ (WorkerSteps /\ wpc = "chk" /\ Q(wblk) = <<>>)
            => /\ oplog' = oplog /\ rx' = rx /\ running' = running
               /\ cmd_q' = cmd_q /\ que_q' = que_q /\ res_q' = res_q
               /\ wblk' = (IF wblk = "cmd" THEN "que" ELSE "poll")
       /\ (WorkerSteps /\ wpc = "read" /\ rx = <<>>)
            => /\ line'.s = <<>>
               /\ oplog' = Append(oplog, Entry("readline", "poll", <<>>))
               /\ running' = running
               /\ cmd_q' = cmd_q /\ que_q' = que_q /\ res_q' = res_q
               /\ wblk' = "poll" /\ wpc' = "classify"
       /\ (Classifies /\ line.s = <<>>)
            => /\ oplog' = oplog /\ running' = running
               /\ cmd_q' = cmd_q /\ que_q' = que_q /\ res_q' = res_q
               /\ wblk' = "run" /\ wpc' = "top"
       /\ (WorkerSteps /\ wblk = "run" /\ ~stop_event)
            => (wblk' = "cmd" /\ wpc' = "chk")]_vars

\* the worker is back in run() after a loop() call whose only transport
\* operation was a line read that returned the empty line
C14_Witness ==
    /\ wblk = "run" /\ wpc = "top"
    /\ oplog = <<Entry("readline", "poll", <<>>)>>

\* C15: once join() has set the stop event the worker starts no further
\* loop() call, calls close() in the end, and does nothing on the transport
\* after close().
C15_StopClosesOnce ==
    /\ [][(stop_event /\ wblk = "run") => wblk' \in {"run", "closed"}]_vars
    /\ [][wblk = "closed" => (wblk' = "closed" /\ oplog' = oplog)]_vars
    /\ stop_event ~> (wblk = "closed")

\* C16: after a transport operation raised in loop() and the worker thread
\* ended, no write() or query() call stays blocked: a call that waits, or
\* that is made afterwards, returns or fails in the end.
C16_NoCallerBlockedAfterRaise ==
    \A c \in Callers :
        (wblk = "crashed" /\ wpc = "raised" /\ cpc[c] = "wait")
            ~> (cpc[c] # "wait")

\* C17: setRunningStatus(True, 0) leaves every channel that was in the table
\* at the call set to True, whatever its value was.
C17_SetAllTrue ==
    (call.op = "set" /\ call.status /\ call.arg = IntArg(0))
        => \A c \in DOMAIN call.before : c \in DOMAIN running /\ running[c]

\* setRunningStatus(True, 0) has returned on a table that held a True and a
\* False entry
C17_Witness ==
    /\ call.op = "set" /\ call.status /\ call.arg = IntArg(0)
    /\ \E c, d \in DOMAIN call.before : call.before[c] /\ ~call.before[d]
    /\ \A c \in DOMAIN running : running[c]

\* the keys of table t other than those in set s keep their value in running
Kept(t, s) ==
    \A c \in DOMAIN t \ s : c \in DOMAIN running /\ running[c] = t[c]

Listed(l) == {l[i] : i \in 1..Len(l)}

\* C18: setRunningStatus writes only the entries it names: with one non-zero
\* channel only that entry (created if absent), with a list only the listed
\* entries, with 0 no key is added (no key 0 either), and on an empty table
\* 0 changes nothing.
C18_SetWritesOnlyNamed ==
    call.op = "set" =>
        /\ (call.arg.t = "int" /\ call.arg.n # 0)
              => /\ DOMAIN running = DOMAIN call.before \cup {call.arg.n}
                 /\ running[call.arg.n] = call.status
                 /\ Kept(call.before, {call.arg.n})
        /\ call.arg.t = "list"
              => /\ DOMAIN running = DOMAIN call.before \cup Listed(call.arg.l)
                 /\ \A c \in Listed(call.arg.l) : running[c] = call.status
                 /\ Kept(call.before, Listed(call.arg.l))
        /\ (call.arg.t = "int" /\ call.arg.n = 0)
              => /\ DOMAIN running = DOMAIN call.before
                 /\ (call.before = <<>> => running = <<>>)

\* a call with a list has created one entry, overwritten another and left
\* a third entry, of the other value, as it was
C18_Witness ==
    /\ call.op = "set" /\ call.arg.t = "list"
    /\ \E c, d \in Listed(call.arg.l) :
          c \notin DOMAIN call.before /\ d \in DOMAIN call.before
          /\ call.before[d] # call.status
    /\ \E c \in DOMAIN call.before \ Listed(call.arg.l) :
          running[c] # call.status

\* C19: getRunning(channel) returns the table's value for the channel, and
\* fails, leaving the table as it was, when the channel was never given a
\* value by setRunningStatus or by a notification.
C19_GetReturnsTableValue ==
    call.op = "get" =>
        /\ running = call.before
        /\ call.arg.n \in DOMAIN call.before
              => (call.ok /\ call.val = call.before[call.arg.n])
        /\ call.arg.n \notin DOMAIN call.before => ~call.ok

\* C20: for a duration n >= 0 in seconds, minutes or hours the time type 2
\* encoder returns the 8 digits, zero-padded, of min(t, 35964000), t being
\* the duration in tenths of a second (10n, 600n, 36000n); 1 minute gives
\* '00000600'.
C20_Time2Encodes ==
    enc.fn = "time2" =>
        LET n == enc.number
            t == CASE enc.units = "s" -> 10 * n
                   [] enc.units = "m" -> 600 * n
                   [] enc.units = "h" -> 36000 * n
        IN  /\ Len(enc.out.s) = 8
            /\ enc.out.s = ZFill(Str(Min(t, 35964000)), 8)
            /\ (n = 1 /\ enc.units = "m")
                  => enc.out.s = <<"0", "0", "0", "0", "0", "6", "0", "0">>

\* C21: every encoder works on the absolute value of its input: the encoding
\* of a number is the encoding of its negation
C21_EncodesAbsoluteValue ==
    /\ enc.fn = "time1" => enc.out = time1(0 - enc.number, enc.units)
    /\ enc.fn = "time2" => enc.out = time2(0 - enc.number, enc.units)
    /\ enc.fn = "volume1" => enc.out = volume1(0 - enc.number)
    /\ enc.fn = "volume2" => enc.out = volume2(0 - enc.number)
    /\ enc.fn = "discrete2" => enc.out = discrete2(0 - enc.number)
    /\ enc.fn = "discrete3" => enc.out = discrete3(0 - enc.number)

\* C22: the volume type 2 encoder returns exactly 4 characters: the first
\* mantissa digit, the next two mantissa digits and the exponent digit of the
\* magnitude in scientific notation; 25.0 gives 2501 and 1.0 gives 1000
C22_Volume2FourChars ==
    enc.fn = "volume2" =>
        LET s == Format3e(Abs(enc.number))
        IN  /\ enc.out.t = "bytes"
            /\ Len(enc.out.s) = 4
            /\ enc.out.s = <<s[1], s[3], s[4], s[Len(s)]>>
            /\ enc.number = 25000 => enc.out.s = <<"2", "5", "0", "1">>
            /\ enc.number = 1000 => enc.out.s = <<"1", "0", "0", "0">>

\* C22 (amended): the volume type 2 encoder returns exactly 6 characters: the
\* first mantissa digit, the next three mantissa digits, the sign of the
\* exponent and the last digit of the exponent; 25.0 gives 2500+1 and 1.0
\* gives 1000+0
C22_Volume2SixChars ==
    enc.fn = "volume2" =>
        LET s == Format3e(Abs(enc.number))
        IN  /\ enc.out.t = "bytes"
            /\ Len(enc.out.s) = 6
            /\ \A i \in 1..4 : enc.out.s[i] \in Digits
            /\ enc.out.s[5] \in {"+", "-"}
            /\ enc.out.s[6] \in Digits
            /\ enc.out.s = <<s[1], s[3], s[4], s[5], s[7], s[9]>>
            /\ enc.number = 25000 =>
                   enc.out.s = <<"2", "5", "0", "0", "+", "1">>
            /\ enc.number = 1000 =>
                   enc.out.s = <<"1", "0", "0", "0", "+", "0">>

C22_Witness ==
    /\ enc.fn = "volume2"
    /\ enc.number = 25000
    /\ enc.out = B(<<"2", "5", "0", "0", "+", "1">>)

\* C23: on a non-negative value with at most two decimals (0.0, 3.0 and 10.0
\* included) the discrete type 2 encoder does not raise and returns the whole
\* digits followed by the decimals without trailing zeros, zero-padded to 4
\* digits; 3.17 gives 0317
C23_Discrete2Total ==
    (enc.fn = "discrete2" /\ enc.number >= 0) =>
        LET f == enc.number % 100
            decimals == IF f = 0 THEN <<>>
                        ELSE IF f % 10 = 0 THEN <<DigitChar(f \div 10)>>
                        ELSE <<DigitChar(f \div 10), DigitChar(f % 10)>>
        IN  /\ enc.out # ValueError
            /\ enc.out = B(ZFill(Str(enc.number \div 100) \o decimals, 4))
            /\ enc.number = 317 => enc.out = B(<<"0", "3", "1", "7">>)

\* C24: dispense_vol_at_rate called without a channel dispenses on all
\* channels, for units ml/min and rpm alike: no assertion fails, its requests
\* after the maximum rate queries carry the channel 0, and when it returns
\* the last request is the start request 0H
C24_NoChannelMeansAll ==
    (call.op = "dispense_vol_at_rate" /\ call.arg = None) =>
        /\ call.error # "AssertionError"
        /\ \A i \in 1..Len(call.log) :
              call.log[i].c # "?" => call.log[i].ch = 0
        /\ call.pc = "done" =>
              call.log[Len(call.log)] = Command(0, "H")

\* the bytes that were buffered when the last payload was written
Buffered ==
    LET i == CHOOSE i \in Idx :
                 /\ oplog[i].op = "buffered"
                 /\ \A j \in (i + 1)..Len(oplog) : oplog[j].op # "buffered"
    IN  oplog[i].arg

\* the step in which the worker reads the reply to the payload it has written
ReadsReply == wblk \in Blocks /\ wpc = "recv" /\ wpc' = "put"

\* C25: no byte that was buffered on the transport when a request's payload
\* is written is delivered as that request's reply: no byte was buffered at
\* the write, or the read of the reply takes no byte
C25_StaleBytesNotReply ==
    [][ReadsReply => (Buffered = <<>> \/ rx' = rx)]_vars

\* the text the poll's readline() has returned, on the socket variant
LineRead == variant = "socket" /\ wblk = "poll" /\ wpc = "classify"

\* the text was complete, by its CR LF, before its last character was read
EndedBefore(s) ==
    \E n \in 2..(Len(s) - 1) : s[n - 1] = CR /\ s[n] = LF

\* C26: the socket variant's line read returns as soon as the text ends with
\* CR LF, or as soon as the lone character * has been received, or when the
\* timeout has passed; on timeout it returns the text read so far, which may
\* be empty, and does not raise
C26_LineEndsOnStar ==
    LineRead =>
        /\ line.t = "str"
        /\ oplog[Len(oplog)].arg = line.s
        /\ ~EndedBefore(line.s)
        /\ Len(line.s) > 1 => line.s[1] # "*"

\* C26 (amended): the socket variant's line read returns as soon as the text
\* ends with CR LF, or when the timeout has passed after a read; on timeout
\* it returns the text read so far, which is empty only when nothing was
\* there to read, and does not raise
C26_LineEndsOnCRLF ==
    LineRead =>
        /\ line.t = "str"
        /\ oplog[Len(oplog)].arg = line.s
        /\ ~EndedBefore(line.s)
        /\ line.s = <<>> => rx = <<>>

\* a line read that went on after the lone character *
C26_Witness ==
    /\ LineRead
    /\ line.s = <<"*", "4">>
    /\ rx = <<LF>>

\* the channels a request with channel digit ch addresses
Addressed(ch) == IF ch = 0 THEN call.channels ELSE {ch}

StartOperations == Operations \ {"stop"}

\* C27: in every start operation the client sets the running state of the
\* addressed channels to true before it puts the start request <ch>H on the
\* queue, and <ch>H is the last request of the operation; in stop it sets
\* the state to false before it puts the stop request <ch>I on the queue
C27_SetBeforeStartAndStop ==
    \A i \in 1..Len(call.log) :
        LET e == call.log[i]
        IN  /\ (e.k = "command" /\ e.c = "H") =>
                  /\ call.op \in StartOperations
                  /\ \E j \in 1..(i - 1) : call.log[j] = Set(TRUE, e.ch)
                  /\ i = Len(call.log) /\ call.prog = <<>>
                  /\ \A c \in Addressed(e.ch) :
                        c \in DOMAIN running /\ running[c]
            /\ (e.k = "command" /\ e.c = "I") =>
                  /\ call.op = "stop"
                  /\ \E j \in 1..(i - 1) : call.log[j] = Set(FALSE, e.ch)
                  /\ \A c \in Addressed(e.ch) :
                        c \in DOMAIN running /\ ~running[c]
            /\ (call.pc = "done" /\ i = Len(call.log)) =>
                  e = Command(call.channel,
                              IF call.op = "stop" THEN "I" ELSE "H")

\* dispense_vol_at_rate has put 0H on the queue with every channel of the
\* pump set to running
C27_Witness ==
    /\ call.op = "dispense_vol_at_rate" /\ call.pc = "done"
    /\ call.arg = None
    /\ call.channels = Channels
    /\ call.log[Len(call.log)] = Command(0, "H")
    /\ \A c \in Channels : running[c]

\* the operations that clamp a rate given in ml/min
ClampsRate ==
    \/ call.op = "continuousFlow"
    \/ call.op = "dispense_vol_at_rate" /\ call.units = "ml/min"

\* the rate of every <ch>f request is at most, in magnitude, each maximum
\* the device reported to the call
RateWithinMaximum ==
    \A i \in 1..Len(call.log) :
        call.log[i].c = "f" =>
            /\ call.replies # {}
            /\ \A m \in call.replies : Abs(call.log[i].num) <= m

\* the direction request of the call is K when k holds and J otherwise
Direction(k) ==
    \A i \in 1..Len(call.log) :
        call.log[i].c \in {"K", "J"} => (call.log[i].c = "K" <=> k)

\* C29: in continuousFlow and dispense_vol_at_rate (ml/min) the magnitude of
\* the rate encoded for the <ch>f request never exceeds the maximum the
\* device reported for the channel, or the least of the maxima of all
\* channels when no channel is given, and the direction request is <ch>K
\* exactly when the requested rate is negative, <ch>J otherwise
C29_ClampAndDirection ==
    ClampsRate => (RateWithinMaximum /\ Direction(call.rate < 0))

\* C29 (amended): the same bound on the rate; the direction request is <ch>K
\* in continuousFlow exactly when the requested rate is negative, and in
\* dispense_vol_at_rate exactly when the requested rate is negative and the
\* volume is not, or the volume is negative and the rate is positive
C29_ClampAndSignedDirection ==
    ClampsRate =>
        /\ RateWithinMaximum
        /\ call.op = "continuousFlow" => Direction(call.rate < 0)
        /\ call.op = "dispense_vol_at_rate" =>
              Direction(\/ call.vol >= 0 /\ call.rate < 0
                        \/ call.vol < 0 /\ call.rate > 0)

\* a negative volume at a rate above the least maximum, on all channels:
\* the rate is cut to the least maximum and the direction is K
C29_Witness ==
    /\ call.op = "dispense_vol_at_rate" /\ call.units = "ml/min"
    /\ call.pc = "done"
    /\ call.arg = None
    /\ call.vol < 0 /\ call.rate = 3000
    /\ call.replies = {2000, 2500}
    /\ \E i \in 1..Len(call.log) : call.log[i] = Command(0, "K")
    /\ \E i \in 1..Len(call.log) :
          call.log[i] = QueryNum(0, "f", "volume2", 0 - 2000)

\* the channels the stop call of caller c was for
Stopped(c) ==
    IF creq[c].data.s = StopPayload(0) THEN Channels
    ELSE {ch \in Channels : creq[c].data.s = StopPayload(ch)}

\* C28: once stop has returned true, and no start operation follows, the
\* running state of its channels is false and stays false, however the
\* client's write of the table and the worker's poll of a notification
\* interleave
C28_StoppedStaysFalse ==
    \A c \in Callers :
        (cpc[c] = "ret" /\ cret[c].ok) =>
            \A ch \in Stopped(c) : ch \in DOMAIN running /\ ~running[ch]

====
